---- MODULE Spec2Model ----
(***************************************************************************)
(* Model of the iterative DNS resolver of custom_dns.py                    *)
(* (hierarchical_lookup and the listener start_service) and of the cached  *)
(* three-phase lookup of c2.py (step_by_step_lookup).                      *)
(*                                                                         *)
(* The name servers and the clients are the environment: every reply,      *)
(* timeout and transport error is a nondeterministic choice.               *)
(***************************************************************************)
EXTENDS Integers, Sequences, FiniteSets, TLC

VARIABLES
    lpc,          \* listener position: "recvfrom" | "lookup" | "stopped"
    root_servers, \* the module-level list object NAME_SERVERS is bound to
    client_addr,  \* address the query in service came from
    stack,        \* call stack of hierarchical_lookup frames (top = last)
    socks,        \* number of transport sockets currently open
    sent,         \* sendto calls the listener made for the query in service
    output,       \* what the listener logged for the query in service
    served,       \* number of inbound queries received so far
    result,       \* start_service's reply_data: what the last completed lookup returned
    netlog,       \* history: network events of the query in service, in order
    hopLog,       \* history: trace entries of the query in service, in creation order
    ncalls,       \* history: number of hierarchical_lookup calls of this query
    responder,    \* environment: how the name servers behave
    domain_cache, \* c2.py: the process-wide memo, hostname -> address list
    c2,           \* c2.py: the locals of the step_by_step_lookup call in progress
    c2hist        \* history of the c2.py lookups made so far

dnsvars == <<lpc, root_servers, client_addr, stack, socks, sent, output, served, result, netlog,
             hopLog, ncalls, responder>>
c2vars == <<domain_cache, c2, c2hist>>
vars == <<dnsvars, c2vars>>

-----------------------------------------------------------------------------
(* Bounds of the model *)

\* requests one inbound query may send before the model stops exploring it
MaxSends == 4
\* inbound queries the listener receives
MaxQueries == 2
\* lookups the c2.py test driver makes
MaxLookups == 3

\* the hop bound the specification asks for; the code has none
HopBound == 20
\* requests explored against the self-referring responder
LoopSends == HopBound + 3

-----------------------------------------------------------------------------
(* Program constants *)

NAME_SERVERS == <<"198.41.0.4", "199.9.14.201", "192.33.4.12">>
TYPE_A == 1
TYPE_NS == 2

-----------------------------------------------------------------------------
(* Values of the environment *)

Clients == {"10.0.0.1", "10.0.0.2"}
QueryNames == {"example.com."}
GlueA == "192.5.6.30"
GlueB == "192.0.2.53"
NsName1 == "ns1.example.net."
NsName2 == "ns2.example.net."
Answer == "93.184.216.34"

RR(n, t, d) == [rname |-> n, rtype |-> t, rdata |-> d]

\* Raw datagrams. kind = "msg": bytes DNSRecord.parse decodes into the sections
\* given; "garbage": non-empty bytes it rejects; "none": Python's None.
Msg(q, rr, auth, ar) == [kind |-> "msg", q |-> q, rr |-> rr, auth |-> auth, ar |-> ar]
None == [kind |-> "none", q |-> "", rr |-> <<>>, auth |-> <<>>, ar |-> <<>>]
Garbage == [kind |-> "garbage", q |-> "", rr |-> <<>>, auth |-> <<>>, ar |-> <<>>]

\* DNSRecord.parse succeeds
Parses(b) == b.kind = "msg"
\* truth value of a bytes-or-None
Truthy(b) == b.kind # "none"
\* bytes(DNSRecord.question(name).pack())
Question(name) == Msg(name, <<>>, <<>>, <<>>)

\* The address of a name: the nameservers have the addresses their glue gives.
AddressOf(q) == IF q = NsName1 THEN GlueA ELSE IF q = NsName2 THEN GlueB ELSE Answer

\* The replies an arbitrary server may give to a question for q.
ArbitraryReplies(q) ==
    { Msg(q, <<RR(q, TYPE_A, AddressOf(q))>>, <<>>, <<>>),
      Msg(q, <<RR(q, 5, "alias.example.org.")>>, <<RR("com.", TYPE_NS, NsName1)>>,
             <<RR(NsName1, TYPE_A, GlueA)>>),
      Msg(q, <<>>, <<RR("com.", TYPE_NS, NsName1)>>,
             <<RR(NsName1, 28, "2001:db8::1"), RR(NsName1, TYPE_A, GlueA),
               RR(NsName2, TYPE_A, GlueB)>>),
      Msg(q, <<>>, <<RR("com.", TYPE_NS, NsName1)>>, <<>>),
      Msg(q, <<>>, <<RR("com.", 6, "soa"), RR("com.", TYPE_NS, NsName1),
                     RR("com.", TYPE_NS, NsName2)>>,
             <<RR(NsName1, 28, "2001:db8::1")>>),
      Msg(q, <<>>, <<RR("com.", 6, "soa")>>, <<>>),
      Msg(q, <<>>, <<>>, <<>>),
      Garbage }

\* The malicious responder: always a referral whose glue is the server itself.
SelfReferral(q, server) ==
    Msg(q, <<>>, <<RR("com.", TYPE_NS, NsName1)>>, <<RR(NsName1, TYPE_A, server)>>)

\* Two zones whose only nameserver name lies in the other zone, served without
\* glue: example.org is delegated to NsNet and example.net to NsOrg.
NsNet == "ns.example.net."
NsOrg == "ns.example.org."
MutualReferral(q) ==
    IF q = NsOrg
    THEN Msg(q, <<>>, <<RR("example.org.", TYPE_NS, NsNet)>>, <<>>)
    ELSE Msg(q, <<>>, <<RR("example.net.", TYPE_NS, NsOrg)>>, <<>>)

Replies(q, server) ==
    IF responder = "selfref" THEN {SelfReferral(q, server)}
    ELSE IF responder = "mutual" THEN {MutualReferral(q)}
    ELSE ArbitraryReplies(q)

SendCap == IF responder = "arbitrary" THEN MaxSends ELSE LoopSends

-----------------------------------------------------------------------------
(* Helpers *)

RECURSIVE SelectSeq2(_, _, _)
\* [str(r.rdata) for r in s if r.rtype = t]
SelectSeq2(s, t, acc) ==
    IF s = <<>> THEN acc
    ELSE SelectSeq2(Tail(s), t,
                    IF Head(s).rtype = t THEN Append(acc, Head(s).rdata) ELSE acc)

RdataOfType(s, t) == SelectSeq2(s, t, <<>>)

Line(r) == <<r.rname, r.rtype, r.rdata>>
Text(s) == <<s, 0, "">>

Top == stack[Len(stack)]
Depth == Len(stack)

-----------------------------------------------------------------------------
(* hierarchical_lookup: one frame per call *)


\* Mutant: the step counter starts at 1 instead of 0.
NewFrameStepOne(request, id, logStart) ==
    [ id |-> id, logStart |-> logStart,
      request_bytes |-> request,
      target_name |-> request.q,
      trace_info |-> <<>>, tcall |-> <<>>,
      active_servers |-> root_servers,
      final_response |-> None,
      lookup_step |-> 1,
      idx |-> 1,
      received_reply |-> FALSE,
      reply_data |-> None,
      contacted_server |-> "",
      server_names |-> <<>>,
      ns_idx |-> 1, ns_results |-> <<>>,
      next_server_ips |-> <<>>,
      pc |-> "loop" ]

\* State of a call after lines 27-34.  id, logStart and ns_results are history
\* fields: the number of the call within the query, the length of hopLog at
\* entry, and what the nested calls of the current step returned so far.
\* tcall runs parallel to trace_info and names the call that created each entry.
NewFrame(request, id, logStart) ==
    [ id |-> id, logStart |-> logStart,
      request_bytes |-> request,
      target_name |-> request.q,
      trace_info |-> <<>>, tcall |-> <<>>,
      active_servers |-> root_servers,
      final_response |-> None,
      lookup_step |-> 0,
      idx |-> 1,
      received_reply |-> FALSE,
      reply_data |-> None,
      contacted_server |-> "",
      server_names |-> <<>>,
      ns_idx |-> 1, ns_results |-> <<>>,
      next_server_ips |-> <<>>,
      pc |-> "loop" ]

\* lines 56-63
TimeoutEntry(step, name_server) ==
    [ step |-> step, mode |-> "Iterative", stage |-> "Timeout",
      server |-> name_server, rtt |-> "None",
      response |-> <<Text("No response (timeout)")>> ]


\* Mutant: the root test is off by one.
PhaseOffByOne(step, parsed) ==
    IF step = 0 THEN "Root"
    ELSE IF Len(parsed.auth) > 0 /\ parsed.rr = <<>> THEN "TLD"
    ELSE "Authoritative"

\* Mutant: a reply with authority records is a TLD reply even if it answers.
PhaseIgnoresAnswer(step, parsed) ==
    IF step = 1 THEN "Root"
    ELSE IF Len(parsed.auth) > 0 THEN "TLD"
    ELSE "Authoritative"

\* lines 72-77
Phase(step, parsed) ==
    IF step = 1 THEN "Root"
    ELSE IF Len(parsed.auth) > 0 /\ parsed.rr = <<>> THEN "TLD"
    ELSE "Authoritative"

\* lines 80-86
ReplySummary(parsed) ==
    LET available_records == IF parsed.rr # <<>> THEN parsed.rr ELSE parsed.auth
    IN  IF available_records # <<>>
        THEN [i \in 1..Len(available_records) |-> Line(available_records[i])]
        ELSE <<Text("Referral or empty response")>>

\* lines 88-95; rtt is "measured" for round(response_time, 2)
ReplyEntry(step, contacted, parsed) ==
    [ step |-> step, mode |-> "Iterative", stage |-> Phase(step, parsed),
      server |-> contacted, rtt |-> "measured",
      response |-> ReplySummary(parsed) ]

\* trace_info.append(entry) by the call f
AppendEntry(f, entry) ==
    [f EXCEPT !.trace_info = Append(@, entry), !.tcall = Append(@, f.id)]

\* Mutant: the additional records are not filtered by type.
GlueAddressesAnyType(parsed) == [i \in 1..Len(parsed.ar) |-> parsed.ar[i].rdata]

\* line 103
GlueAddresses(parsed) == RdataOfType(parsed.ar, TYPE_A)
\* line 107
NameServerNames(parsed) == RdataOfType(parsed.auth, TYPE_NS)
\* lines 117-120
AnswerAddresses(ns_response) == RdataOfType(ns_response.rr, TYPE_A)


\* Mutant: the nested trace is dropped instead of merged.
ExtendTraceLost(trace, ns_trace) == trace

\* line 115: trace_info.extend(ns_trace)
ExtendTrace(trace, ns_trace) == trace \o ns_trace


\* Mutant: the first timeout ends the for loop.
AfterTimeoutGivesUp(f) ==
    LET g == [f EXCEPT !.trace_info = Append(@, TimeoutEntry(f.lookup_step,
                                                      f.active_servers[f.idx])),
                       !.tcall = Append(@, f.id)]
    IN  [g EXCEPT !.idx = f.idx + 1, !.pc = "process"]

\* lines 43, 55-63: the frame after name_server timed out; the for loop goes on
\* to the next server, or ends (pc "process") after the last one
AfterTimeout(f) ==
    LET g == AppendEntry(f, TimeoutEntry(f.lookup_step, f.active_servers[f.idx]))
    IN  [g EXCEPT !.idx = f.idx + 1,
                  !.pc = IF f.idx + 1 > Len(f.active_servers) THEN "process" ELSE "send"]


\* Mutant: the break after a reply is missing.
AfterReplyNoBreak(f, bytes) ==
    [f EXCEPT !.reply_data = bytes, !.received_reply = TRUE,
              !.contacted_server = f.active_servers[f.idx],
              !.idx = f.idx + 1,
              !.pc = IF f.idx + 1 > Len(f.active_servers) THEN "process" ELSE "send"]

\* lines 49-54: the frame after name_server replied; break leaves the for loop
AfterReply(f, bytes) ==
    [f EXCEPT !.reply_data = bytes, !.received_reply = TRUE,
              !.contacted_server = f.active_servers[f.idx], !.pc = "process"]

\* lines 122-125: the for loop over server_names is over, or glue was found
WithNextServers(f, ips) ==
    IF ips = <<>> THEN [f EXCEPT !.next_server_ips = ips, !.pc = "ret"]
    ELSE [f EXCEPT !.next_server_ips = ips, !.active_servers = ips, !.pc = "loop"]

\* Mutant: the break after the final answer is missing.
AfterParseNoBreak(f) ==
    LET parsed == f.reply_data
        g == AppendEntry(f, ReplyEntry(f.lookup_step, f.contacted_server, parsed))
        h == IF parsed.rr # <<>> THEN [g EXCEPT !.final_response = f.reply_data] ELSE g
    IN  IF GlueAddresses(parsed) # <<>>
        THEN WithNextServers(h, GlueAddresses(parsed))
        ELSE IF NameServerNames(parsed) = <<>>
        THEN [h EXCEPT !.next_server_ips = <<>>, !.pc = "ret"]
        ELSE [h EXCEPT !.next_server_ips = <<>>,
                       !.server_names = NameServerNames(parsed),
                       !.ns_idx = 1, !.ns_results = <<>>, !.pc = "ns"]

\* lines 66-125 for a step in which a server replied with decodable bytes
AfterParse(f) ==
    LET parsed == f.reply_data
        g == AppendEntry(f, ReplyEntry(f.lookup_step, f.contacted_server, parsed))
    IN  IF parsed.rr # <<>>
        THEN [g EXCEPT !.final_response = f.reply_data, !.pc = "ret"]
        ELSE IF GlueAddresses(parsed) # <<>>
        THEN WithNextServers(g, GlueAddresses(parsed))
        ELSE IF NameServerNames(parsed) = <<>>
        THEN [g EXCEPT !.next_server_ips = <<>>, !.pc = "ret"]
        ELSE [g EXCEPT !.next_server_ips = <<>>,
                       !.server_names = NameServerNames(parsed),
                       !.ns_idx = 1, !.ns_results = <<>>, !.pc = "ns"]

\* lines 114-120 and the end of the for loop at 112: the parent after the nested
\* call for server_names[ns_idx] returned (ns_response, ns_trace)
AfterNested(parent, child) ==
    LET ips == IF Truthy(child.final_response)
               THEN parent.next_server_ips \o AnswerAddresses(child.final_response)
               ELSE parent.next_server_ips
        p == [parent EXCEPT
                 !.trace_info = ExtendTrace(@, child.trace_info),
                 !.tcall = ExtendTrace(@, child.tcall),
                 !.next_server_ips = ips,
                 !.ns_idx = parent.ns_idx + 1,
                 !.ns_results = Append(@, child.final_response)]
    IN  IF parent.ns_idx + 1 > Len(parent.server_names)
        THEN WithNextServers(p, ips)
        ELSE [p EXCEPT !.pc = "ns"]

SetTop(f) == [stack EXCEPT ![Len(stack)] = f]

\* Mutant: the candidates are replaced inside the list object, which at step 1
\* is the module-level list.
RootListOverwritten(before, after) ==
    IF after.pc = "loop" /\ before.lookup_step = 1 THEN after.active_servers
    ELSE root_servers

\* lines 32, 125: active_servers is bound to the module-level list at entry and
\* rebound, not changed in place, when a hop yields the next candidates; the
\* list object is what it was
RootListAfter(before, after) == root_servers

\* Mutant: the socket of an attempt is left open.
CloseSocketLeaks(n) == n

\* line 44: leaving the with-block closes the socket of the attempt
CloseSocket(n) == n - 1

NetEvent(ev, f) ==
    [ ev |-> ev, server |-> f.active_servers[f.idx], call |-> f.id,
      step |-> f.lookup_step ]

\* the entries the call f appended itself, as they stand in hopLog
Logged(f, entry) == [entry |-> entry, call |-> f.id]

-----------------------------------------------------------------------------
(* c2.py: step_by_step_lookup and its cache *)

PRIMARY_SERVERS == <<"198.41.0.4", "199.9.14.201", "192.33.4.12">>

Hostnames == {"example.com", "example.org"}
Addr1 == "93.184.216.34"
Addr2 == "93.184.216.35"

\* a list-or-None of addresses
NoAddresses == [none |-> TRUE, list |-> <<>>]
Addresses(list) == [none |-> FALSE, list |-> list]
\* truth value of a list-or-None
NonEmpty(v) == ~v.none /\ v.list # <<>>

RRset(t, items) == [rdtype |-> t, items |-> items]
Response(answer, additional) == [answer |-> answer, additional |-> additional]

\* The responses a server may give: any of these answer sections with any of
\* these additional sections.
AnswerSections ==
    { <<>>,
      <<RRset(TYPE_A, <<Addr1>>)>>,
      <<RRset(5, <<"alias.example.net.">>), RRset(TYPE_A, <<Addr2, Addr1>>)>>,
      <<RRset(5, <<"alias.example.net.">>)>> }
AdditionalSections ==
    { <<>>,
      <<RRset(28, <<"2001:db8::1">>)>>,
      <<RRset(28, <<"2001:db8::1">>), RRset(TYPE_A, <<GlueA, GlueB>>),
        RRset(TYPE_A, <<GlueB>>)>> }
Responses == {Response(a, x) : a \in AnswerSections, x \in AdditionalSections}

\* Mutant: the last address of the first A rrset is taken.
FirstALast(additional) ==
    LET a == SelectSeq(additional, LAMBDA rrset : rrset.rdtype = TYPE_A)
    IN  IF a = <<>> THEN "None" ELSE a[1].items[Len(a[1].items)]

RECURSIVE FirstA(_)
\* lines 55-59, 80-84: the first address of the first A rrset of an additional
\* section, "None" when there is none
FirstA(additional) ==
    IF additional = <<>> THEN "None"
    ELSE IF Head(additional).rdtype = TYPE_A THEN Head(additional).items[1]
    ELSE FirstA(Tail(additional))

RECURSIVE AddressesOf(_)
\* line 98: the addresses of the A rrsets of an answer section, flattened
AddressesOf(answer) ==
    IF answer = <<>> THEN <<>>
    ELSE (IF Head(answer).rdtype = TYPE_A THEN Head(answer).items ELSE <<>>)
             \o AddressesOf(Tail(answer))

\* line 35: hostname in domain_cache
CacheHit(cache, hostname) == hostname \in DOMAIN cache

\* Mutant: the result is stored whether or not addresses were resolved.
StoreAlways(cache, hostname, resolved) ==
    (hostname :> resolved) @@ cache

\* Mutant: the result is never stored.
StoreNever(cache, hostname, resolved) == cache

\* lines 107-108: if resolved_addresses: domain_cache[hostname] = resolved_addresses
Store(cache, hostname, resolved) ==
    IF NonEmpty(resolved) THEN (hostname :> resolved) @@ cache ELSE cache

\* the value step_by_step_lookup returns
Return(addresses, time, cache_result) ==
    [addresses |-> addresses, time |-> time, cache_result |-> cache_result]

\* History of one query of a lookup: the phase it belongs to, whether the
\* server replied, and the additional section of the reply.
Got(phase, ok, additional) == [phase |-> phase, ok |-> ok, additional |-> additional]

\* Time is counted in network operations: every query, answered or not, takes
\* one unit (elapsed); accumulated_rtt adds up the answered ones.  net and got
\* are history fields: the servers queried, and what each query brought.
C2Idle ==
    [ pc |-> "idle", hostname |-> "", root_idx |-> 1, tld_server |-> "None",
      authoritative_server |-> "None", accumulated_rtt |-> 0, elapsed |-> 0,
      ret |-> Return(NoAddresses, 0, ""), trace |-> <<>>, net |-> <<>>, got |-> <<>>,
      hadSuccess |-> FALSE ]

InitC2 ==
    /\ domain_cache = <<>>
    /\ c2 = C2Idle
    /\ c2hist = [lookups |-> 0, success |-> <<>>, answered |-> {}]

\* lines 106-113: the end of a lookup that missed the cache
Finish(resolved, trace, net, got, elapsed, answered) ==
    /\ domain_cache' = Store(domain_cache, c2.hostname, resolved)
    /\ c2' = [c2 EXCEPT !.pc = "idle",
                        !.ret = Return(resolved, elapsed, "MISS"),
                        !.elapsed = elapsed,
                        !.net = net, !.got = got,
                        !.trace = Append(trace, IF NonEmpty(resolved) THEN "Cache Stored"
                                                ELSE "No Response")]
    /\ c2hist' = [c2hist EXCEPT
                     !.answered = answered,
                     !.success = IF NonEmpty(resolved) /\ c2.hostname \notin DOMAIN @
                                 THEN (c2.hostname :> resolved) @@ @ ELSE @]

\* lines 29-42: the call; a cache hit returns at once
C2Lookup(hostname) ==
    /\ c2.pc = "idle"
    /\ c2hist.lookups < MaxLookups
    /\ c2hist' = [c2hist EXCEPT !.lookups = @ + 1]
    /\ IF CacheHit(domain_cache, hostname)
       THEN c2' = [C2Idle EXCEPT !.hostname = hostname,
                                 !.ret = Return(domain_cache[hostname], 0, "HIT"),
                                 !.trace = <<"Cache HIT">>,
                                 !.hadSuccess = hostname \in DOMAIN c2hist.success]
       ELSE c2' = [C2Idle EXCEPT !.hostname = hostname, !.pc = "root",
                                 !.hadSuccess = hostname \in DOMAIN c2hist.success]
    /\ UNCHANGED <<domain_cache, dnsvars>>

\* lines 63-67: the query to a root server raises; the next one is tried
C2RootFails ==
    /\ c2.pc = "root"
    /\ LET net == Append(c2.net, PRIMARY_SERVERS[c2.root_idx])
           trace == Append(c2.trace, "Root FAIL")
           got == Append(c2.got, Got("root", FALSE, <<>>))
       IN  IF c2.root_idx = Len(PRIMARY_SERVERS)
           THEN c2' = [c2 EXCEPT !.pc = "idle", !.net = net, !.trace = trace,
                                 !.got = got, !.elapsed = @ + 1,
                                 !.ret = Return(NoAddresses, c2.accumulated_rtt, "MISS")]
           ELSE c2' = [c2 EXCEPT !.root_idx = @ + 1, !.net = net, !.trace = trace,
                                 !.got = got, !.elapsed = @ + 1]
    /\ UNCHANGED <<domain_cache, c2hist, dnsvars>>

\* lines 45-62, 66-67: a root server replies
C2RootReplies ==
    /\ c2.pc = "root"
    /\ \E root_response \in Responses :
         LET net == Append(c2.net, PRIMARY_SERVERS[c2.root_idx])
             trace == Append(c2.trace, "Root Referral")
             g == [c2 EXCEPT !.net = net, !.trace = trace, !.elapsed = @ + 1,
                             !.got = Append(@, Got("root", TRUE,
                                                   root_response.additional)),
                             !.accumulated_rtt = @ + 1]
         IN  IF FirstA(root_response.additional) # "None"
             THEN c2' = [g EXCEPT !.tld_server = FirstA(root_response.additional),
                                  !.pc = "tld"]
             ELSE IF c2.root_idx = Len(PRIMARY_SERVERS)
             THEN c2' = [g EXCEPT !.pc = "idle",
                                  !.ret = Return(NoAddresses, g.accumulated_rtt, "MISS")]
             ELSE c2' = [g EXCEPT !.root_idx = @ + 1]
    /\ UNCHANGED <<domain_cache, c2hist, dnsvars>>

\* lines 85-87: the query to the TLD server raises
C2TldFails ==
    /\ c2.pc = "tld"
    /\ c2' = [c2 EXCEPT !.pc = "idle", !.net = Append(@, c2.tld_server),
                        !.got = Append(@, Got("tld", FALSE, <<>>)),
                        !.trace = Append(@, "TLD FAIL"), !.elapsed = @ + 1,
                        !.ret = Return(NoAddresses, c2.accumulated_rtt, "MISS")]
    /\ UNCHANGED <<domain_cache, c2hist, dnsvars>>

\* lines 70-84: the TLD server replies
C2TldReplies ==
    /\ c2.pc = "tld"
    /\ \E tld_response \in Responses :
         c2' = [c2 EXCEPT !.pc = "auth", !.net = Append(@, c2.tld_server),
                          !.got = Append(@, Got("tld", TRUE, tld_response.additional)),
                          !.trace = Append(@, "TLD Referral"), !.elapsed = @ + 1,
                          !.accumulated_rtt = @ + 1,
                          !.authoritative_server = FirstA(tld_response.additional)]
    /\ UNCHANGED <<domain_cache, c2hist, dnsvars>>

\* lines 93, 103-113: there is no authoritative server to query, and
\* dns.query.udp raises before anything is sent
C2AuthMissing ==
    /\ c2.pc = "auth" /\ c2.authoritative_server = "None"
    /\ Finish(NoAddresses, Append(c2.trace, "Authoritative FAIL"), c2.net, c2.got,
              c2.elapsed, c2hist.answered)
    /\ UNCHANGED dnsvars

\* lines 103-113: the query to the authoritative server raises
C2AuthFails ==
    /\ c2.pc = "auth" /\ c2.authoritative_server # "None"
    /\ Finish(NoAddresses, Append(c2.trace, "Authoritative FAIL"),
              Append(c2.net, c2.authoritative_server),
              Append(c2.got, Got("auth", FALSE, <<>>)), c2.elapsed + 1, c2hist.answered)
    /\ UNCHANGED dnsvars

\* lines 90-101, 106-113: the authoritative server replies
C2AuthReplies ==
    /\ c2.pc = "auth" /\ c2.authoritative_server # "None"
    /\ \E auth_response \in Responses :
         Finish(IF auth_response.answer # <<>>
                THEN Addresses(AddressesOf(auth_response.answer))
                ELSE NoAddresses,
                Append(c2.trace, IF auth_response.answer # <<>>
                                 THEN "Authoritative Response"
                                 ELSE "Authoritative NO ANSWER"),
                Append(c2.net, c2.authoritative_server),
                Append(c2.got, Got("auth", TRUE, <<>>)), c2.elapsed + 1,
                c2hist.answered \cup {<<c2.hostname, auth_response>>})
    /\ UNCHANGED dnsvars

-----------------------------------------------------------------------------
(* start_service: the listener *)


\* Mutant: the listener answers whether or not the lookup produced a reply.
ShouldSendAlways(reply_data) == TRUE

\* line 169: if reply_data
ShouldSend(reply_data) == Truthy(reply_data)

\* lines 157-172: what the listener writes, and the sendto calls it makes, once
\* the lookup returned
LogOf(reply_data) ==
    IF ShouldSend(reply_data) THEN <<"Query", "Trace", "Total">>
    ELSE <<"Query", "Trace", "Total", "Resolution failed.">>

DatagramsOf(reply_data, addr) ==
    IF ShouldSend(reply_data) THEN <<[to |-> addr, data |-> reply_data]>> ELSE <<>>

\* lines 177-179: an exception raised anywhere below the try is logged and the
\* loop continues; every with-block on the way closes its socket
Raise(written) ==
    /\ stack' = <<>>
    /\ socks' = 0
    /\ lpc' = "recvfrom"
    /\ output' = Append(written, "Error")

Init ==
    /\ lpc = "recvfrom"
    /\ client_addr = ""
    /\ stack = <<>>
    /\ socks = 0
    /\ sent = <<>>
    /\ output = <<>>
    /\ served = 0
    /\ result = None
    /\ netlog = <<>>
    /\ hopLog = <<>>
    /\ ncalls = 0
    /\ responder = "arbitrary"
    /\ root_servers = NAME_SERVERS
    /\ InitC2

\* lines 152-155 and 27-34: a datagram arrives and hierarchical_lookup is entered
Recvfrom(request_data, addr) ==
    /\ UNCHANGED c2vars
    /\ lpc = "recvfrom"
    /\ served < MaxQueries
    /\ served' = served + 1
    /\ client_addr' = addr
    /\ sent' = <<>>
    /\ netlog' = <<>>
    /\ hopLog' = <<>>
    /\ socks' = 0
    /\ IF Parses(request_data)
       THEN /\ stack' = <<NewFrame(request_data, 1, 0)>>
            /\ lpc' = "lookup"
            /\ output' = <<>>
            /\ ncalls' = 1
       ELSE /\ stack' = <<>>
            /\ lpc' = "recvfrom"
            /\ output' = <<"Error">>
            /\ ncalls' = 0
    /\ UNCHANGED <<result, responder, root_servers>>

\* lines 36-40: the head of the while loop
BeginStep ==
    /\ UNCHANGED c2vars
    /\ lpc = "lookup" /\ Depth > 0 /\ Top.pc = "loop"
    /\ stack' = SetTop([Top EXCEPT !.lookup_step = @ + 1, !.idx = 1,
                                   !.received_reply = FALSE, !.reply_data = None,
                                   !.contacted_server = "", !.ns_results = <<>>,
                                   !.pc = "send"])
    /\ UNCHANGED <<lpc, client_addr, socks, sent, output, served, result, netlog,
                   hopLog, ncalls, responder, root_servers>>

\* Mutant: the request is sent and the loop goes on without waiting for the
\* reply.
SendToNoWait ==
    /\ UNCHANGED c2vars
    /\ lpc = "lookup" /\ Depth > 0 /\ Top.pc = "send"
    /\ Len(SelectSeq(netlog, LAMBDA e : e.ev = "send")) < SendCap
    /\ socks' = socks + 1
    /\ netlog' = Append(netlog, NetEvent("send", Top))
    /\ stack' = SetTop([Top EXCEPT !.idx = @ + 1,
                                   !.pc = IF Top.idx + 1 > Len(Top.active_servers)
                                          THEN "process" ELSE "send"])
    /\ UNCHANGED <<lpc, client_addr, sent, output, served, result, hopLog, ncalls,
                   responder, root_servers>>

\* lines 43-48: a socket is opened and the request is sent to the next candidate
SendTo ==
    /\ UNCHANGED c2vars
    /\ lpc = "lookup" /\ Depth > 0 /\ Top.pc = "send"
    /\ Len(SelectSeq(netlog, LAMBDA e : e.ev = "send")) < SendCap
    /\ socks' = socks + 1
    /\ netlog' = Append(netlog, NetEvent("send", Top))
    /\ stack' = SetTop([Top EXCEPT !.pc = "recv"])
    /\ UNCHANGED <<lpc, client_addr, sent, output, served, result, hopLog, ncalls,
                   responder, root_servers>>

\* lines 55-63: recvfrom raises socket.timeout
RecvTimeout ==
    /\ UNCHANGED c2vars
    /\ lpc = "lookup" /\ Depth > 0 /\ Top.pc = "recv"
    /\ socks' = CloseSocket(socks)
    /\ netlog' = Append(netlog, NetEvent("timeout", Top))
    /\ hopLog' = Append(hopLog,
                   Logged(Top, TimeoutEntry(Top.lookup_step, Top.active_servers[Top.idx])))
    /\ stack' = SetTop(AfterTimeout(Top))
    /\ UNCHANGED <<lpc, client_addr, sent, output, served, result, ncalls, responder, root_servers>>

\* lines 49-54: recvfrom returns a datagram
RecvReply ==
    /\ UNCHANGED c2vars
    /\ lpc = "lookup" /\ Depth > 0 /\ Top.pc = "recv"
    /\ \E bytes \in Replies(Top.target_name, Top.active_servers[Top.idx]) :
          stack' = SetTop(AfterReply(Top, bytes))
    /\ socks' = CloseSocket(socks)
    /\ netlog' = Append(netlog, NetEvent("reply", Top))
    /\ UNCHANGED <<lpc, client_addr, sent, output, served, result, hopLog, ncalls,
                   responder, root_servers>>

\* lines 47-49: sendto or recvfrom raises another OSError, which nothing in
\* hierarchical_lookup catches
RecvError ==
    /\ UNCHANGED c2vars
    /\ lpc = "lookup" /\ Depth > 0 /\ Top.pc = "recv"
    /\ netlog' = Append(netlog, NetEvent("error", Top))
    /\ Raise(<<>>)
    /\ UNCHANGED <<client_addr, sent, served, result, hopLog, ncalls, responder, root_servers>>

\* lines 66-67: no server replied
NoReply ==
    /\ UNCHANGED c2vars
    /\ lpc = "lookup" /\ Depth > 0 /\ Top.pc = "process"
    /\ ~Top.received_reply
    /\ stack' = SetTop([Top EXCEPT !.pc = "ret"])
    /\ UNCHANGED <<lpc, client_addr, socks, sent, output, served, result, netlog,
                   hopLog, ncalls, responder, root_servers>>

\* line 69: DNSRecord.parse raises on the reply
BadReply ==
    /\ UNCHANGED c2vars
    /\ lpc = "lookup" /\ Depth > 0 /\ Top.pc = "process"
    /\ Top.received_reply /\ ~Parses(Top.reply_data)
    /\ Raise(<<>>)
    /\ UNCHANGED <<client_addr, sent, served, result, netlog, hopLog, ncalls, responder, root_servers>>

\* lines 69-125: the reply is decoded, traced and acted upon
ProcessReply ==
    /\ UNCHANGED c2vars
    /\ lpc = "lookup" /\ Depth > 0 /\ Top.pc = "process"
    /\ Top.received_reply /\ Parses(Top.reply_data)
    /\ hopLog' = Append(hopLog,
                   Logged(Top, ReplyEntry(Top.lookup_step, Top.contacted_server,
                                          Top.reply_data)))
    /\ stack' = SetTop(AfterParse(Top))
    /\ root_servers' = RootListAfter(Top, AfterParse(Top))
    /\ UNCHANGED <<lpc, client_addr, socks, sent, output, served, result, netlog,
                   ncalls, responder>>

\* lines 112-114: the nested call for the next nameserver name
CallNested ==
    /\ UNCHANGED c2vars
    /\ lpc = "lookup" /\ Depth > 0 /\ Top.pc = "ns"
    /\ stack' = Append(SetTop([Top EXCEPT !.pc = "wait"]),
                       NewFrame(Question(Top.server_names[Top.ns_idx]),
                                ncalls + 1, Len(hopLog)))
    /\ ncalls' = ncalls + 1
    /\ UNCHANGED <<lpc, client_addr, socks, sent, output, served, result, netlog,
                   hopLog, responder, root_servers>>

\* lines 127-128 and 114-125: a nested call returns to its caller
ReturnNested ==
    /\ UNCHANGED c2vars
    /\ lpc = "lookup" /\ Depth > 1 /\ Top.pc = "ret"
    /\ stack' = [SubSeq(stack, 1, Depth - 1) EXCEPT
                    ![Depth - 1] = AfterNested(stack[Depth - 1], Top)]
    /\ root_servers' = RootListAfter(stack[Depth - 1],
                                     AfterNested(stack[Depth - 1], Top))
    /\ UNCHANGED <<lpc, client_addr, socks, sent, output, served, result, netlog,
                   hopLog, ncalls, responder>>

\* lines 127-128 and 155-172: the top-level call returns to the listener
ReturnTop ==
    /\ UNCHANGED c2vars
    /\ lpc = "lookup" /\ Depth = 1 /\ Top.pc = "ret"
    /\ output' = LogOf(Top.final_response)
    /\ sent' = sent \o DatagramsOf(Top.final_response, client_addr)
    /\ stack' = <<>>
    /\ lpc' = "recvfrom"
    /\ result' = Top.final_response
    /\ UNCHANGED <<client_addr, socks, served, netlog, hopLog, ncalls, responder, root_servers>>

\* line 170: sendto raises; line 177 logs it
ReplySendFails ==
    /\ UNCHANGED c2vars
    /\ lpc = "lookup" /\ Depth = 1 /\ Top.pc = "ret"
    /\ ShouldSend(Top.final_response)
    /\ result' = Top.final_response
    /\ sent' = sent \o DatagramsOf(Top.final_response, client_addr)
    /\ Raise(<<"Query", "Trace", "Total">>)
    /\ UNCHANGED <<client_addr, served, netlog, hopLog, ncalls, responder, root_servers>>

\* lines 174-176: KeyboardInterrupt, wherever the listener is
Interrupt ==
    /\ UNCHANGED c2vars
    /\ lpc # "stopped"
    /\ lpc' = "stopped"
    /\ stack' = <<>>
    /\ socks' = 0
    /\ output' = <<"Shutting down DNS Resolver...">>
    /\ UNCHANGED <<client_addr, sent, served, result, netlog, hopLog, ncalls, responder, root_servers>>

Next ==
    \/ \E request_data \in {Question(q) : q \in QueryNames} \cup {Garbage},
          addr \in Clients : Recvfrom(request_data, addr)
    \/ BeginStep
    \/ SendTo
    \/ RecvTimeout
    \/ RecvReply
    \/ RecvError
    \/ NoReply
    \/ BadReply
    \/ ProcessReply
    \/ CallNested
    \/ ReturnNested
    \/ ReturnTop
    \/ ReplySendFails
    \/ Interrupt

Spec == Init /\ [][Next]_vars

NextC2 ==
    \/ \E hostname \in Hostnames : C2Lookup(hostname)
    \/ C2RootFails
    \/ C2RootReplies
    \/ C2TldFails
    \/ C2TldReplies
    \/ C2AuthMissing
    \/ C2AuthFails
    \/ C2AuthReplies

SpecC2 == Init /\ [][NextC2]_vars

-----------------------------------------------------------------------------
(* The listener against the responder that always refers back to itself *)

InitLoop ==
    /\ lpc = "recvfrom"
    /\ client_addr = ""
    /\ stack = <<>>
    /\ socks = 0
    /\ sent = <<>>
    /\ output = <<>>
    /\ served = 0
    /\ result = None
    /\ netlog = <<>>
    /\ hopLog = <<>>
    /\ ncalls = 0
    /\ responder = "selfref"
    /\ root_servers = NAME_SERVERS
    /\ InitC2

NextLoop ==
    \/ \E q \in QueryNames, addr \in Clients : Recvfrom(Question(q), addr)
    \/ BeginStep
    \/ SendTo
    \/ RecvTimeout
    \/ RecvReply
    \/ NoReply
    \/ ProcessReply
    \/ ReturnTop

SpecLoop == InitLoop /\ [][NextLoop]_vars

-----------------------------------------------------------------------------
(* The listener against mutually dependent glueless delegations *)

InitNest ==
    /\ lpc = "recvfrom"
    /\ client_addr = ""
    /\ stack = <<>>
    /\ socks = 0
    /\ sent = <<>>
    /\ output = <<>>
    /\ served = 0
    /\ result = None
    /\ netlog = <<>>
    /\ hopLog = <<>>
    /\ ncalls = 0
    /\ responder = "mutual"
    /\ root_servers = NAME_SERVERS
    /\ InitC2

NextNest ==
    \/ \E q \in QueryNames, addr \in Clients : Recvfrom(Question(q), addr)
    \/ BeginStep
    \/ SendTo
    \/ RecvReply
    \/ ProcessReply
    \/ CallNested

SpecNest == InitNest /\ [][NextNest]_vars

-----------------------------------------------------------------------------
(* Claims *)

\* C1: every resolve call stops within the delegation hop bound: no call ever
\* begins a hop beyond HopBound (20), whatever the servers reply.
C1_HopBoundEnforced ==
    \A i \in 1..Len(stack) : stack[i].lookup_step <= HopBound

\* C9: the listener is ready for the next query again: a query keeps it in the
\* lookup only as long as the top-level resolution is within the hop bound.
C9_ListenerReadyAgain ==
    lpc = "lookup" => stack[1].lookup_step <= HopBound

-----------------------------------------------------------------------------
Stages == {"Root", "TLD", "Authoritative", "Timeout"}

Zip(f) == [i \in 1..Len(f.trace_info) |-> [entry |-> f.trace_info[i], call |-> f.tcall[i]]]

\* the positions of the entries of f's trace that call c appended, in order
OwnIdx(f, c) ==
    SelectSeq([i \in 1..Len(f.tcall) |-> i], LAMBDA i : f.tcall[i] = c)

\* the network events of f's current step
StepEvents(f) ==
    SelectSeq(netlog, LAMBDA e : e.call = f.id /\ e.step = f.lookup_step)

Last(s) == s[Len(s)]

\* f's for loop over the candidates ended without a reply
AllTimedOut(f) == f.pc \in {"process", "ret"} /\ ~f.received_reply

\* C2: when every candidate of a step timed out, the call returns no answer,
\* the last network event is the last candidate's timeout, and the entries of
\* that step are exactly one Timeout entry per candidate, in candidate order.
C2_AllTimeoutsFail ==
    (Depth > 0 /\ AllTimedOut(Top)) =>
        LET f == Top
            n == Len(f.active_servers)
            t == f.trace_info
            m == Len(t)
        IN  /\ f.final_response = None
            /\ m >= n
            /\ SubSeq(t, m - n + 1, m) =
                   [k \in 1..n |-> TimeoutEntry(f.lookup_step, f.active_servers[k])]
            /\ \A k \in (m - n + 1)..m : f.tcall[k] = f.id
            /\ \A k \in 1..(m - n) : ~(f.tcall[k] = f.id /\ t[k].step = f.lookup_step)
            /\ Last(netlog) = [ev |-> "timeout", server |-> f.active_servers[n],
                               call |-> f.id, step |-> f.lookup_step]
            /\ Len(StepEvents(f)) = 2 * n
            /\ f.pc = "ret" /\ Depth = 1 => ~ShouldSend(f.final_response)

C2_Witness ==
    /\ Depth = 1 /\ Top.pc = "ret" /\ ~Top.received_reply
    /\ Top.lookup_step = 2 /\ Top.active_servers = <<GlueA, GlueB>>

\* C5 as claimed: the steps of a returned trace are strictly increasing from 1.
C5_StrictlyIncreasing ==
    \A i \in 1..Len(stack) :
        LET t == stack[i].trace_info
        IN  (stack[i].pc = "ret" /\ t # <<>>) =>
                /\ t[1].step = 1
                /\ \A k \in 1..(Len(t) - 1) : t[k].step < t[k + 1].step

\* C5 amended: among the entries one call appended, the first has step 1, a
\* Timeout entry is followed by an entry of the same step and a replied entry
\* by an entry of the next step; a nested call's entries start again at 1.
C5_OwnStepsMonotone ==
    \A i \in 1..Len(stack) : \A c \in 1..ncalls :
        LET t == stack[i].trace_info
            own == OwnIdx(stack[i], c)
        IN  /\ own # <<>> => t[own[1]].step = 1
            /\ \A k \in 1..(Len(own) - 1) :
                  t[own[k + 1]].step =
                      IF t[own[k]].stage = "Timeout" THEN t[own[k]].step
                      ELSE t[own[k]].step + 1

C5_Witness ==
    /\ Depth = 1 /\ Top.pc = "ret"
    /\ \E k \in 1..(Len(Top.trace_info) - 2) :
          /\ Top.tcall[k] = 1 /\ Top.trace_info[k].stage = "Timeout"
          /\ Top.tcall[k + 1] = 1 /\ Top.trace_info[k + 1].step = Top.trace_info[k].step
          /\ Top.tcall[k + 2] = 2 /\ Top.trace_info[k + 2].step = 1
    /\ Top.lookup_step = 2

\* C6: every stage is Root, TLD, Authoritative or Timeout, and the first entry
\* that is not a Timeout has stage Root.
C6_StagesRootFirst ==
    \A i \in 1..Len(stack) :
        LET t == stack[i].trace_info
        IN  \A k \in 1..Len(t) :
                /\ t[k].stage \in Stages
                /\ (t[k].stage # "Timeout" /\ \A j \in 1..(k - 1) : t[j].stage = "Timeout")
                       => t[k].stage = "Root"

C6_Witness ==
    /\ Depth = 1 /\ Top.pc = "ret"
    /\ Len(Top.trace_info) >= 4
    /\ Top.trace_info[1].stage = "Timeout"
    /\ Top.trace_info[2].stage = "Root"
    /\ \E k \in 3..Len(Top.trace_info) : Top.trace_info[k].stage = "TLD"
    /\ \E k \in 3..Len(Top.trace_info) : Top.trace_info[k].stage = "Authoritative"

\* C7: the trace a call holds is the sequence of all trace entries created since
\* the call began, its own and those of its nested calls, in creation order; a
\* caller waiting for a nested call holds the entries created before that call.
C7_TraceIsHopLog ==
    \A i \in 1..Len(stack) :
        LET f == stack[i]
        IN  IF i = Len(stack)
            THEN Zip(f) = SubSeq(hopLog, f.logStart + 1, Len(hopLog))
            ELSE Zip(f) = SubSeq(hopLog, f.logStart + 1, stack[i + 1].logStart)

C7_Witness ==
    Depth = 1 /\ Top.pc = "ret" /\ Top.tcall = <<1, 2, 3, 1>>

\* C8: the network events of a call's current step are send/outcome pairs for the
\* candidates in list order; every outcome but the last is a timeout, so nothing
\* is sent after a reply and a candidate is tried only after all earlier ones
\* timed out.
C8_CandidatesInOrder ==
    \A i \in 1..Len(stack) :
        LET f == stack[i]
            evs == StepEvents(f)
        IN  f.pc # "loop" =>
              /\ Len(evs) <= 2 * Len(f.active_servers)
              /\ \A k \in 1..Len(evs) :
                    IF k % 2 = 1
                    THEN /\ evs[k].ev = "send"
                         /\ evs[k].server = f.active_servers[(k + 1) \div 2]
                    ELSE /\ evs[k].ev \in {"timeout", "reply"}
                         /\ evs[k].server = evs[k - 1].server
                         /\ k < Len(evs) => evs[k].ev = "timeout"
              /\ f.pc = "send" => Len(evs) = 2 * (f.idx - 1)
              /\ f.received_reply => Last(evs).ev = "reply"

C8_Witness ==
    /\ Depth = 1 /\ Top.pc = "send" /\ Top.lookup_step = 2
    /\ Len(netlog) >= 4
    /\ SubSeq(netlog, 1, 4) =
          << [ev |-> "send", server |-> NAME_SERVERS[1], call |-> 1, step |-> 1],
             [ev |-> "timeout", server |-> NAME_SERVERS[1], call |-> 1, step |-> 1],
             [ev |-> "send", server |-> NAME_SERVERS[2], call |-> 1, step |-> 1],
             [ev |-> "reply", server |-> NAME_SERVERS[2], call |-> 1, step |-> 1] >>

\* C10: for the query in service the listener calls sendto at most once, with
\* the address the query came from and the answer the lookup returned; it does
\* so exactly when the lookup returned an answer, and not before it returned.
C10_AtMostOneDatagram ==
    /\ Len(sent) <= 1
    /\ \A k \in 1..Len(sent) :
          /\ sent[k] = [to |-> client_addr, data |-> result]
          /\ Parses(result) /\ result.rr # <<>>
    /\ lpc = "lookup" => sent = <<>>
    /\ output = <<"Error">> => sent = <<>>
    /\ (output # <<>> /\ output[1] = "Query") =>
          /\ sent # <<>> <=> result # None
          /\ sent = <<>> <=> Last(output) = "Resolution failed."

C10_Witness ==
    /\ lpc = "recvfrom" /\ served = 2
    /\ sent = <<[to |-> "10.0.0.2", data |-> result]>>
    /\ Last(output) = "Total"

-----------------------------------------------------------------------------
(* Claims about the cached lookup of c2.py *)

\* C3: a lookup of a name that an earlier lookup resolved to a non-empty address
\* list returns that list with elapsed time 0 and the marker HIT, writes the
\* cache-hit trace line and sends no network request.
C3_CachedAfterSuccess ==
    c2.hadSuccess =>
        /\ c2.pc = "idle"
        /\ c2.ret = Return(c2hist.success[c2.hostname], 0, "HIT")
        /\ c2.net = <<>>
        /\ c2.trace = <<"Cache HIT">>

C3_Witness ==
    /\ c2.hadSuccess /\ c2hist.lookups = 3
    /\ c2.ret.cache_result = "HIT" /\ c2.ret.addresses = Addresses(<<Addr2, Addr1>>)
    /\ DOMAIN domain_cache = Hostnames

Elems(seq) == {seq[i] : i \in 1..Len(seq)}

\* list holds the addresses of the A rrsets of answer, and there is one
FromAnswer(list, answer) ==
    /\ list # <<>>
    /\ Elems(list) =
          UNION {Elems(answer[i].items) : i \in {j \in 1..Len(answer) : answer[j].rdtype = TYPE_A}}

C4_CacheHoldsAnswers ==
    \A h \in DOMAIN domain_cache :
        /\ ~domain_cache[h].none
        /\ \E pair \in c2hist.answered :
              pair[1] = h /\ FromAnswer(domain_cache[h].list, pair[2].answer)

C4_CacheStep ==
    /\ \A h \in DOMAIN domain_cache :
          h \in DOMAIN domain_cache' /\ domain_cache'[h] = domain_cache[h]
    /\ (c2.pc # "idle" /\ c2'.pc = "idle" /\ ~NonEmpty(c2'.ret.addresses))
          => domain_cache' = domain_cache

\* C4: every cache entry maps a name to a non-empty address list taken from an
\* answer to a query for that name; no step removes or changes an entry, and a
\* lookup that ends without addresses leaves the cache as it was.
C4_NoNegativeCaching ==
    []C4_CacheHoldsAnswers /\ [][C4_CacheStep]_vars

C4_Witness ==
    /\ c2.pc = "idle" /\ c2.ret = Return(Addresses(<<>>), 3, "MISS")
    /\ Last(c2.trace) = "No Response"
    /\ c2.hostname \notin DOMAIN domain_cache
    /\ DOMAIN domain_cache # {}

-----------------------------------------------------------------------------
(* Claims about decoding, sockets and nesting *)

\* C11: a reply that cannot be decoded aborts only its hop: the call stays in
\* service and goes on to the next candidate of the step, and it ends, without
\* an answer, only when that was the last candidate.
C11_MalformedReplyNextCandidate ==
    [][ ( /\ Depth > 0 /\ Top.pc = "process"
          /\ Top.received_reply /\ ~Parses(Top.reply_data)
          /\ lpc' # "stopped" )
        => ( /\ lpc' = "lookup"
             /\ Len(stack') = Depth
             /\ stack'[Depth].pc = IF Top.idx < Len(Top.active_servers)
                                   THEN "send" ELSE "ret"
             /\ stack'[Depth].final_response = None ) ]_vars

\* C12: at most one transport socket is open, and one is open only while the
\* running call waits for the reply to the request it just sent: none at a hop
\* boundary, none once the lookup has returned or raised.
C12_SocketScoped ==
    /\ socks \in {0, 1}
    /\ socks = 1 <=> (lpc = "lookup" /\ Depth > 0 /\ Top.pc = "recv")

C12_Witness ==
    /\ socks = 0 /\ lpc = "recvfrom" /\ output = <<"Error">>
    /\ Len(netlog) = 6
    /\ netlog[2].ev = "timeout" /\ netlog[4].ev = "reply" /\ netlog[6].ev = "error"

\* C13: the chain of nested resolve calls is bounded: the calls in progress
\* never nest deeper than the hop/depth bound, whatever the delegation data.
C13_NestingBounded ==
    Depth <= HopBound

-----------------------------------------------------------------------------
(* Claims about one hop of hierarchical_lookup *)

\* the call f has handled a decodable reply of its current step
Handled(f) == f.received_reply /\ Parses(f.reply_data) /\ f.pc # "process"

\* C14: a call whose current reply carries answer records is returning exactly
\* that reply: it is the running call, the reply's trace entry is the last entry
\* of its trace and the reply is the last network event; and a call returns a
\* reply only in this way.
C14_AnswerEndsResolution ==
    \A i \in 1..Len(stack) :
        LET f == stack[i]
        IN  /\ (Handled(f) /\ f.reply_data.rr # <<>>) =>
                  /\ i = Depth /\ f.pc = "ret"
                  /\ f.final_response = f.reply_data
                  /\ Last(f.tcall) = f.id
                  /\ Last(f.trace_info).step = f.lookup_step
                  /\ Last(f.trace_info).server = f.contacted_server
                  /\ Last(f.trace_info).stage \in {"Root", "Authoritative"}
                  /\ Last(f.trace_info).response =
                        [k \in 1..Len(f.reply_data.rr) |-> Line(f.reply_data.rr[k])]
                  /\ Last(netlog) = [ev |-> "reply", server |-> f.contacted_server,
                                     call |-> f.id, step |-> f.lookup_step]
            /\ Truthy(f.final_response) => (Handled(f) /\ f.reply_data.rr # <<>>)

C14_Witness ==
    /\ Depth = 1 /\ Top.pc = "ret" /\ Top.lookup_step = 3
    /\ Truthy(Top.final_response)
    /\ Top.final_response.ar # <<>> /\ Top.final_response.auth # <<>>

IsA(r) == r.rtype = TYPE_A
\* the addresses of the A records among rrs, in their order
AddressesIn(rrs) ==
    [k \in 1..Len(SelectSeq(rrs, IsA)) |-> SelectSeq(rrs, IsA)[k].rdata]

\* C15: a call whose current reply has no answer records but A records in its
\* additional section goes on with exactly those addresses, in order, as its
\* candidate list, and nothing was sent or resolved in between: the reply is
\* still the last network event and its entry the last entry of the trace.
C15_GlueIsNextList ==
    \A i \in 1..Len(stack) :
        LET f == stack[i]
        IN  ( /\ Handled(f) /\ f.reply_data.rr = <<>>
              /\ AddressesIn(f.reply_data.ar) # <<>> ) =>
                /\ i = Depth /\ f.pc = "loop"
                /\ f.active_servers = AddressesIn(f.reply_data.ar)
                /\ f.ns_results = <<>>
                /\ Last(f.tcall) = f.id
                /\ Last(f.trace_info).server = f.contacted_server
                /\ Last(netlog) = [ev |-> "reply", server |-> f.contacted_server,
                                   call |-> f.id, step |-> f.lookup_step]

C15_Witness ==
    /\ Depth = 1 /\ Top.pc = "loop" /\ Handled(Top)
    /\ Len(Top.reply_data.ar) = 3
    /\ Top.active_servers = <<GlueA, GlueB>>

\* C16: when the nested resolution of a nameserver name ends, with or without
\* an answer, the waiting parent goes on: the addresses the nested call
\* obtained (none if it failed) are appended to the parent's next candidate
\* list, the parent turns to the next nameserver name if there is one, and
\* after the last name it fails exactly when the list is still empty.
C16_FailedNameSkipped ==
    [][ ( /\ Depth > 1 /\ Top.pc \in {"process", "ret"}
          /\ Len(stack') < Depth /\ lpc' # "stopped" )
        => ( /\ Len(stack') = Depth - 1
             /\ LET parent == stack[Depth - 1]
                    after == stack'[Depth - 1]
                    obtained == IF Truthy(Top.final_response)
                                THEN AddressesIn(Top.final_response.rr) ELSE <<>>
                IN  /\ after.ns_idx = parent.ns_idx + 1
                    /\ after.next_server_ips = parent.next_server_ips \o obtained
                    /\ after.pc = IF parent.ns_idx < Len(parent.server_names) THEN "ns"
                                  ELSE IF after.next_server_ips = <<>> THEN "ret"
                                  ELSE "loop"
                    /\ after.pc = "loop" => after.active_servers = after.next_server_ips
                    /\ after.final_response = None ) ]_vars

\* the stage of a reply received at a step
StageOf(step, reply) ==
    CASE step = 1 -> "Root"
      [] step # 1 /\ Len(reply.auth) >= 1 /\ Len(reply.rr) = 0 -> "TLD"
      [] OTHER -> "Authoritative"

\* C17: the entry a call recorded for the reply of its current step carries
\* the step, the server that replied, and the stage determined by the step and
\* the reply alone: Root at step 1, else TLD for a reply with authority records
\* and no answer records, else Authoritative.
C17_StageFromStepAndReply ==
    \A i \in 1..Len(stack) :
        LET f == stack[i]
        IN  Handled(f) =>
                LET e == f.trace_info[Last(OwnIdx(f, f.id))]
                IN  /\ e.step = f.lookup_step
                    /\ e.server = f.contacted_server
                    /\ e.stage = StageOf(f.lookup_step, f.reply_data)

C17_Witness ==
    /\ Depth = 1 /\ Handled(Top) /\ Top.lookup_step = 2
    /\ Top.reply_data.rr # <<>> /\ Top.reply_data.auth # <<>>
    /\ Len(Top.trace_info) = 2
    /\ Top.trace_info[1].stage = "Root" /\ Top.trace_info[2].stage = "Authoritative"

-----------------------------------------------------------------------------
(* Claims about the order of the requests of one resolution *)

\* the number of requests sent and not yet answered, timed out or failed
Outstanding ==
    Len(SelectSeq(netlog, LAMBDA e : e.ev = "send"))
        - Len(SelectSeq(netlog, LAMBDA e : e.ev # "send"))

\* requests and their outcomes alternate; a request that ended in neither a
\* reply nor a timeout is the last event of the resolution
Alternating ==
    \A k \in 1..Len(netlog) :
        IF k % 2 = 1 THEN netlog[k].ev = "send"
        ELSE /\ netlog[k].ev \in {"timeout", "reply", "error"}
             /\ netlog[k].ev = "error" => k = Len(netlog)
             /\ netlog[k].server = netlog[k - 1].server
             /\ netlog[k].call = netlog[k - 1].call
             /\ netlog[k].step = netlog[k - 1].step

\* every call below the running one waits at line 114 for the nested call above
\* it, which was made later; with all names of a glueless hop resolved the call
\* has one result per name
NestedSynchronous ==
    /\ \A i \in 1..Len(stack) :
          /\ (stack[i].pc = "wait") <=> (i < Depth)
          /\ i < Depth => stack[i + 1].id > stack[i].id
          /\ stack[i].pc = "wait" => Len(stack[i].ns_results) = stack[i].ns_idx - 1
          /\ ( /\ stack[i].pc = "loop" /\ Handled(stack[i])
               /\ stack[i].reply_data.rr = <<>>
               /\ AddressesIn(stack[i].reply_data.ar) = <<>> )
             => Len(stack[i].ns_results) = Len(stack[i].server_names)

\* a request is sent by the running call only, which has no nested call
SentByRunningCall ==
    Len(netlog') = Len(netlog) + 1 /\ Last(netlog').ev = "send" =>
        /\ Depth > 0 /\ Len(stack') = Depth
        /\ Last(netlog').call = Top.id
        /\ Last(netlog').step = Top.lookup_step
        /\ Outstanding = 0

\* C18: at most one request of a resolution, nested resolutions included, is
\* outstanding; a request is sent only when the previous one was answered or
\* timed out; and a call sends only while none of its nested calls is running.
C18_StrictlySequential ==
    /\ [](Outstanding \in {0, 1})
    /\ [](lpc = "lookup" => (Outstanding = 1 <=> Top.pc = "recv"))
    /\ []Alternating
    /\ []NestedSynchronous
    /\ [][SentByRunningCall]_vars

C18_Witness ==
    /\ Depth = 1 /\ Top.pc = "recv" /\ Top.lookup_step = 2
    /\ Len(Top.ns_results) = 0 /\ Len(Top.server_names) = 2
    /\ Len(netlog) = 7
    /\ netlog[3].call = 2 /\ netlog[5].call = 3 /\ netlog[7].call = 1

\* the requests the call c sent at its step 1, in the order sent
FirstStepSends(c) ==
    SelectSeq(netlog, LAMBDA e : e.call = c /\ e.step = 1 /\ e.ev = "send")

\* C19: the root server list stays as configured; every call, top-level or
\* nested, in every query, starts with the configured list, sends its first
\* request to the first configured root server, and at step 1 sends to
\* configured root servers only, in the configured order.
C19_RootListFixed ==
    /\ root_servers = NAME_SERVERS
    /\ \A i \in 1..Len(stack) :
          ( \/ stack[i].lookup_step = 0
            \/ stack[i].lookup_step = 1 /\ stack[i].pc \in {"send", "recv", "process"} )
          => stack[i].active_servers = NAME_SERVERS
    /\ \A c \in 1..ncalls :
          /\ Len(FirstStepSends(c)) <= Len(NAME_SERVERS)
          /\ \A k \in 1..Len(FirstStepSends(c)) :
                FirstStepSends(c)[k].server = NAME_SERVERS[k]
          /\ \A k \in 1..Len(netlog) :
                ( /\ netlog[k].call = c
                  /\ \A j \in 1..(k - 1) : netlog[j].call # c )
                => netlog[k] = [ev |-> "send", server |-> NAME_SERVERS[1],
                                call |-> c, step |-> 1]

C19_Witness ==
    /\ served = 2 /\ Len(netlog) = 7
    /\ netlog[3] = [ev |-> "send", server |-> GlueA, call |-> 1, step |-> 2]
    /\ netlog[5] = [ev |-> "send", server |-> NAME_SERVERS[1], call |-> 2, step |-> 1]
    /\ netlog[7] = [ev |-> "send", server |-> NAME_SERVERS[2], call |-> 2, step |-> 1]

-----------------------------------------------------------------------------
(* Claims about the queries of one step_by_step_lookup *)

\* the first address of the first A rrset a query brought, "None" without one
GlueOf(g) ==
    LET a == SelectSeq(g.additional, LAMBDA rrset : rrset.rdtype = TYPE_A)
    IN  IF g.ok /\ a # <<>> THEN a[1].items[1] ELSE "None"

\* the number of queries of a phase
QueriesOf(phase) == Len(SelectSeq(c2.got, LAMBDA g : g.phase = phase))

\* the lookup in c2 missed the cache and has returned
MissReturned == c2.pc = "idle" /\ c2.ret.cache_result = "MISS"

\* C20: a lookup that misses the cache queries the root servers in their order
\* until one brings A glue, then at most once the TLD server that glue names
\* and at most once the authoritative server the TLD reply's first A glue
\* names; it stops with no addresses when the roots are exhausted, when the TLD
\* query fails or brings no glue, or when the authoritative query fails.
C20_ThreePhases ==
    LET n == Len(c2.net)
        nr == QueriesOf("root")
    IN  /\ Len(c2.got) = n
        /\ nr <= Len(PRIMARY_SERVERS)
        /\ QueriesOf("tld") <= 1 /\ QueriesOf("auth") <= 1
        /\ n = nr + QueriesOf("tld") + QueriesOf("auth")
        /\ \A k \in 1..nr :
              /\ c2.got[k].phase = "root" /\ c2.net[k] = PRIMARY_SERVERS[k]
              /\ k < nr => GlueOf(c2.got[k]) = "None"
        /\ QueriesOf("tld") = 1 =>
              /\ c2.got[nr + 1].phase = "tld"
              /\ GlueOf(c2.got[nr]) # "None"
              /\ c2.net[nr + 1] = GlueOf(c2.got[nr])
        /\ QueriesOf("auth") = 1 =>
              /\ QueriesOf("tld") = 1 /\ c2.got[nr + 2].phase = "auth"
              /\ GlueOf(c2.got[nr + 1]) # "None"
              /\ c2.net[nr + 2] = GlueOf(c2.got[nr + 1])
        /\ c2.pc = "root" => n = nr /\ nr < Len(PRIMARY_SERVERS)
        /\ c2.pc = "tld" => n = nr /\ GlueOf(c2.got[nr]) # "None"
        /\ c2.pc = "auth" => n = nr + 1 /\ c2.got[n].ok
        /\ MissReturned =>
              /\ nr >= 1
              /\ GlueOf(c2.got[nr]) = "None" => n = nr /\ nr = Len(PRIMARY_SERVERS)
              /\ GlueOf(c2.got[nr]) # "None" => QueriesOf("tld") = 1
              /\ (QueriesOf("tld") = 1 /\ GlueOf(c2.got[nr + 1]) # "None")
                    => QueriesOf("auth") = 1
              /\ (QueriesOf("auth") = 0 \/ ~c2.got[n].ok) => c2.ret.addresses = NoAddresses

C20_Witness ==
    /\ MissReturned /\ NonEmpty(c2.ret.addresses)
    /\ c2.net = <<PRIMARY_SERVERS[1], PRIMARY_SERVERS[2], GlueA, GlueA>>
    /\ ~c2.got[1].ok
    /\ Len(c2.got[3].additional) = 3
====
